---- MODULE Spec2Model ----
(***************************************************************************)
(* Student Management System - CLI (student_mngmt.py).                     *)
(*                                                                         *)
(* The program keeps student records (roll, name, marks) in students.csv.  *)
(* Every menu operation loads the whole file, works on the list in memory  *)
(* and, when it mutates, writes the whole file back.                       *)
(*                                                                         *)
(* Text is modelled as a sequence of one-character strings, so that        *)
(* str.strip, str.isdigit, int(), str() and float() are computed and not   *)
(* assumed.  A character is any of U+0000 to U+00FF but the backquote,     *)
(* which no TLA+ string holds.  The file is the text it holds: csv.DictWriter     *)
(* produces it and csv.DictReader parses it, character by character.       *)
(***************************************************************************)
EXTENDS Integers, Sequences, FiniteSets, TLC

VARIABLES
    file,        \* students.csv: [exists |-> BOOLEAN, text |-> its characters]
    reportlab,   \* REPORTLAB_AVAILABLE, fixed at import time
    pc,          \* "start", "menu" (main() at its prompt), "exited", "crashed"
    last,        \* what the last operation read, was given and did
    assigned,    \* the rolls handed out by the successful adds, in order
    budget       \* menu selections still to be taken in this run of the model

vars == <<file, reportlab, pc, last, assigned, budget>>

----------------------------------------------------------------------------
(* Program constants *)

START_ROLL == 1001

Roll == <<"r", "o", "l", "l">>
Name == <<"n", "a", "m", "e">>
Marks == <<"m", "a", "r", "k", "s">>

FIELDNAMES == <<Roll, Name, Marks>>

\* Python's None, told apart from every text
None == <<"None">>

\* what a helper gives back: a value, or the exception it raises
Ok(v) == [exc |-> "none", value |-> v]
Exc(e) == [exc |-> e, value |-> <<>>]

----------------------------------------------------------------------------
(* Text helpers: Python's str and number conversions on character sequences *)

\* the whitespace characters that have no escape in a string: U+000B, U+001C to
\* U+001F, U+0085 and U+00A0
VT == ""
FS == ""
GS == ""
RS == ""
US == ""
NEL == ""
NBSP == " "

Digits == <<"0", "1", "2", "3", "4", "5", "6", "7", "8", "9">>

UpperCase == <<"A", "B", "C", "D", "E", "F", "G", "H", "I", "J", "K", "L", "M",
              "N", "O", "P", "Q", "R", "S", "T", "U", "V", "W", "X", "Y", "Z",
              "À", "Á", "Â", "Ã", "Ä", "Å", "Æ", "Ç", "È", "É", "Ê", "Ë", "Ì",
              "Í", "Î", "Ï", "Ð", "Ñ", "Ò", "Ó", "Ô", "Õ", "Ö", "Ø", "Ù", "Ú",
              "Û", "Ü", "Ý", "Þ">>

LowerCase == <<"a", "b", "c", "d", "e", "f", "g", "h", "i", "j", "k", "l", "m",
              "n", "o", "p", "q", "r", "s", "t", "u", "v", "w", "x", "y", "z",
              "à", "á", "â", "ã", "ä", "å", "æ", "ç", "è", "é", "ê", "ë", "ì",
              "í", "î", "ï", "ð", "ñ", "ò", "ó", "ô", "õ", "ö", "ø", "ù", "ú",
              "û", "ü", "ý", "þ">>

\* a decimal digit, as int() and float() read it
IsDecimal(c) == \E i \in DOMAIN Digits : Digits[i] = c

\* str.isdigit() on one character: the superscripts are digits too
IsDigit(c) == IsDecimal(c) \/ c \in {"¹", "²", "³"}

DigitVal(c) == (CHOOSE i \in DOMAIN Digits : Digits[i] = c) - 1

\* str.isspace() on one character
IsSpace(c) == c \in {" ", "\t", "\n", VT, "\f", "\r", FS, GS, RS, US, NEL, NBSP}

\* the blanks int() and float() pass over at both ends of a text
IsNumSpace(c) == c \in {" ", "\t", "\n", VT, "\f", "\r", NEL, NBSP}

\* str.lower() on one character
LowerChar(c) ==
    IF \E i \in DOMAIN UpperCase : UpperCase[i] = c
    THEN LowerCase[CHOOSE i \in DOMAIN UpperCase : UpperCase[i] = c]
    ELSE c

\* str.lower()
Lower(s) == [i \in DOMAIN s |-> LowerChar(s[i])]

RECURSIVE LStrip(_)
LStrip(s) == IF s # <<>> /\ IsSpace(Head(s)) THEN LStrip(Tail(s)) ELSE s

RECURSIVE RStrip(_)
RStrip(s) ==
    IF s # <<>> /\ IsSpace(s[Len(s)]) THEN RStrip(SubSeq(s, 1, Len(s) - 1)) ELSE s

\* str.strip()
Strip(s) == RStrip(LStrip(s))

RECURSIVE NumLStrip(_)
NumLStrip(s) == IF s # <<>> /\ IsNumSpace(Head(s)) THEN NumLStrip(Tail(s)) ELSE s

RECURSIVE NumRStrip(_)
NumRStrip(s) ==
    IF s # <<>> /\ IsNumSpace(s[Len(s)]) THEN NumRStrip(SubSeq(s, 1, Len(s) - 1)) ELSE s

\* the text int() and float() parse: s without the blanks at its ends
NumStrip(s) == NumRStrip(NumLStrip(s))

\* str.isdigit(): non-empty and every character a digit
IsDigitStr(s) == s # <<>> /\ \A i \in DOMAIN s : IsDigit(s[i])

\* non-empty and every character a decimal digit
IsDecimalStr(s) == s # <<>> /\ \A i \in DOMAIN s : IsDecimal(s[i])

\* int() of a string of decimal digits
RECURSIVE DigitsToInt(_)
DigitsToInt(s) ==
    IF s = <<>> THEN 0
    ELSE 10 * DigitsToInt(SubSeq(s, 1, Len(s) - 1)) + DigitVal(s[Len(s)])

\* str() of a natural number
RECURSIVE NatToStr(_)
NatToStr(n) ==
    IF n < 10 THEN <<Digits[n + 1]>>
    ELSE Append(NatToStr(n \div 10), Digits[(n % 10) + 1])

\* "query in text": query occurs in text as a contiguous substring
Contains(text, query) ==
    \E i \in 1..(Len(text) - Len(query) + 1) :
        SubSeq(text, i, i + Len(query) - 1) = query

\* int() and float() take "_" between two digits and drop it
UnderscoresOk(t) ==
    \A i \in DOMAIN t :
        t[i] = "_" => /\ i > 1 /\ IsDecimal(t[i - 1])
                      /\ i < Len(t) /\ IsDecimal(t[i + 1])

DropUnderscores(t) == LET Kept(c) == c # "_" IN SelectSeq(t, Kept)

\* the first index at which the sequence of truth values holds TRUE, 0 if none
First(flags) ==
    IF \E i \in DOMAIN flags : flags[i]
    THEN CHOOSE i \in DOMAIN flags : flags[i] /\ \A j \in 1..(i - 1) : ~flags[j]
    ELSE 0

\* the characters U+0020 to U+005F
Ascii32 ==
    <<" ", "!", "\"", "#", "$", "%", "&", "'", "(", ")", "*", "+", ",", "-", ".", "/",
      "0", "1", "2", "3", "4", "5", "6", "7", "8", "9", ":", ";", "<", "=", ">", "?",
      "@", "A", "B", "C", "D", "E", "F", "G", "H", "I", "J", "K", "L", "M", "N", "O",
      "P", "Q", "R", "S", "T", "U", "V", "W", "X", "Y", "Z", "[", "\\", "]", "^", "_">>

\* the characters U+0061 to U+007E
Ascii97 ==
    <<"a", "b", "c", "d", "e", "f", "g", "h", "i", "j", "k", "l", "m", "n", "o", "p",
      "q", "r", "s", "t", "u", "v", "w", "x", "y", "z", "{", "|", "}", "~">>

\* the characters U+00A1 to U+00FF
Latin161 ==
    <<"¡", "¢", "£", "¤", "¥", "¦", "§", "¨", "©", "ª", "«", "¬", "­", "®", "¯", "°",
      "±", "²", "³", "´", "µ", "¶", "·", "¸", "¹", "º", "»", "¼", "½", "¾", "¿", "À",
      "Á", "Â", "Ã", "Ä", "Å", "Æ", "Ç", "È", "É", "Ê", "Ë", "Ì", "Í", "Î", "Ï", "Ð",
      "Ñ", "Ò", "Ó", "Ô", "Õ", "Ö", "×", "Ø", "Ù", "Ú", "Û", "Ü", "Ý", "Þ", "ß", "à",
      "á", "â", "ã", "ä", "å", "æ", "ç", "è", "é", "ê", "ë", "ì", "í", "î", "ï", "ð",
      "ñ", "ò", "ó", "ô", "õ", "ö", "÷", "ø", "ù", "ú", "û", "ü", "ý", "þ", "ÿ">>

\* ord(c) of a printable or whitespace character
Ord(c) ==
    CASE c = "\t" -> 9
      [] c = "\n" -> 10
      [] c = VT -> 11
      [] c = "\f" -> 12
      [] c = "\r" -> 13
      [] c = FS -> 28
      [] c = GS -> 29
      [] c = RS -> 30
      [] c = US -> 31
      [] c = NEL -> 133
      [] c = NBSP -> 160
      [] \E i \in DOMAIN Ascii32 : Ascii32[i] = c ->
            31 + (CHOOSE i \in DOMAIN Ascii32 : Ascii32[i] = c)
      [] \E i \in DOMAIN Ascii97 : Ascii97[i] = c ->
            96 + (CHOOSE i \in DOMAIN Ascii97 : Ascii97[i] = c)
      [] \E i \in DOMAIN Latin161 : Latin161[i] = c ->
            160 + (CHOOSE i \in DOMAIN Latin161 : Latin161[i] = c)

\* a < b on str: lexicographic by code point
RECURSIVE StrLess(_, _)
StrLess(a, b) ==
    IF b = <<>> THEN FALSE
    ELSE IF a = <<>> THEN TRUE
    ELSE IF Head(a) # Head(b) THEN Ord(Head(a)) < Ord(Head(b))
    ELSE StrLess(Tail(a), Tail(b))

----------------------------------------------------------------------------
(* float().  A finite value is the decimal sign * digits * 10^exp, digits   *)
(* without leading or trailing zeros (none for zero): the double of a text  *)
(* of at most FloatDig significant digits within the range of the normal    *)
(* doubles is told by that decimal, and str() gives it back.  A text with   *)
(* more digits, or in the range of the subnormal doubles, is outside the    *)
(* model: ToDouble has no case for it.  A sum is computed where the double  *)
(* sum is exact and is outside the model where it is rounded.               *)

\* sys.float_info.dig
FloatDig == 15

\* sys.float_info.min_10_exp
FloatMin10Exp == -307

\* below 10^DenormMin10Exp every decimal rounds to 0.0 (the least double is 5e-324)
DenormMin10Exp == -324

\* sys.float_info.max_10_exp
FloatMax10Exp == 308

\* the decimals from 0.1797693134862315808 * 10^(FloatMax10Exp + 1) on round to inf
\* (sys.float_info.max plus half a unit in its last place, rounded up)
FloatMaxDigits ==
    <<"1", "7", "9", "7", "6", "9", "3", "1", "3", "4", "8", "6", "2", "3", "1", "5", "8",
      "0", "8">>

Zero == [k |-> "fin", sign |-> 1, digits |-> <<>>, exp |-> 0]
NaN == [k |-> "nan", sign |-> 1, digits |-> <<>>, exp |-> 0]
Inf(sign) == [k |-> "inf", sign |-> sign, digits |-> <<>>, exp |-> 0]
NoFloat == [k |-> "err", sign |-> 1, digits |-> <<>>, exp |-> 0]

Zeros(n) == [i \in 1..n |-> "0"]

RECURSIVE StripLeadingZeros(_)
StripLeadingZeros(s) ==
    IF s # <<>> /\ Head(s) = "0" THEN StripLeadingZeros(Tail(s)) ELSE s

RECURSIVE StripZeros(_)
StripZeros(s) ==
    IF s # <<>> /\ s[Len(s)] = "0" THEN StripZeros(SubSeq(s, 1, Len(s) - 1)) ELSE s

\* the finite value sign * d * 10^e
Fin(sign, d, e) ==
    LET a == StripLeadingZeros(d)
        b == StripZeros(a)
    IN  IF b = <<>> THEN Zero
        ELSE [k |-> "fin", sign |-> sign, digits |-> b, exp |-> e + Len(a) - Len(b)]

\* the value is 0.digits * 10^DecPt
DecPt(x) == Len(x.digits) + x.exp

\* a < b on digit sequences read as fractions 0.a and 0.b
RECURSIVE FracLess(_, _)
FracLess(a, b) ==
    IF b = <<>> THEN FALSE
    ELSE IF a = <<>> THEN \E i \in DOMAIN b : b[i] # "0"
    ELSE IF Head(a) # Head(b) THEN DigitVal(Head(a)) < DigitVal(Head(b))
    ELSE FracLess(Tail(a), Tail(b))

\* |x| < |y| on finite values
MagLess(x, y) ==
    IF y.digits = <<>> THEN FALSE
    ELSE IF x.digits = <<>> THEN TRUE
    ELSE IF DecPt(x) # DecPt(y) THEN DecPt(x) < DecPt(y)
    ELSE FracLess(x.digits, y.digits)

\* a + b + carry on digit sequences read as naturals
RECURSIVE AddDigits(_, _, _)
AddDigits(a, b, carry) ==
    IF a = <<>> /\ b = <<>> THEN (IF carry = 0 THEN <<>> ELSE <<Digits[carry + 1]>>)
    ELSE LET da == IF a = <<>> THEN 0 ELSE DigitVal(a[Len(a)])
             db == IF b = <<>> THEN 0 ELSE DigitVal(b[Len(b)])
             s == da + db + carry
         IN  Append(AddDigits(SubSeq(a, 1, Len(a) - 1), SubSeq(b, 1, Len(b) - 1),
                              s \div 10),
                    Digits[(s % 10) + 1])

\* a - b - borrow on digit sequences read as naturals, a >= b + borrow
RECURSIVE SubDigits(_, _, _)
SubDigits(a, b, borrow) ==
    IF a = <<>> THEN <<>>
    ELSE LET da == DigitVal(a[Len(a)])
             db == IF b = <<>> THEN 0 ELSE DigitVal(b[Len(b)])
             s == da - db - borrow
         IN  Append(SubDigits(SubSeq(a, 1, Len(a) - 1), SubSeq(b, 1, Len(b) - 1),
                              IF s < 0 THEN 1 ELSE 0),
                    Digits[((s + 10) % 10) + 1])

\* the finite value is beyond the largest double
Overflows(x) ==
    /\ x.digits # <<>>
    /\ \/ DecPt(x) > FloatMax10Exp + 1
       \/ DecPt(x) = FloatMax10Exp + 1 /\ ~FracLess(x.digits, FloatMaxDigits)

\* the double a decimal text denotes
ToDouble(x) ==
    CASE x.digits = <<>> -> Zero
      [] x.digits # <<>> /\ DecPt(x) <= DenormMin10Exp -> Zero
      [] Overflows(x) -> Inf(x.sign)
      [] /\ x.digits # <<>> /\ ~Overflows(x)
         /\ DecPt(x) > FloatMin10Exp /\ Len(x.digits) <= FloatDig -> x

\* position of the first c in s, 0 if none
PosOf(s, c) ==
    IF \E i \in DOMAIN s : s[i] = c
    THEN CHOOSE i \in DOMAIN s : s[i] = c /\ \A j \in 1..(i - 1) : s[j] # c
    ELSE 0

AllDigits(s) == \A i \in DOMAIN s : IsDecimal(s[i])

\* the exponent after "e": an optional sign and digits; more than five digits
\* are an exponent beyond every double
ParseExponent(x) ==
    LET signed == x # <<>> /\ Head(x) \in {"+", "-"}
        sign == IF signed /\ Head(x) = "-" THEN -1 ELSE 1
        d == StripLeadingZeros(IF signed THEN Tail(x) ELSE x)
    IN  IF ~IsDecimalStr(IF signed THEN Tail(x) ELSE x) THEN Exc("ValueError")
        ELSE IF Len(d) > 5 THEN Ok(sign * 99999)
        ELSE Ok(sign * DigitsToInt(d))

\* the unsigned decimal text d: digits with at most one point and at least one
\* digit, then optionally "e" and an exponent
ParseDecimal(d) ==
    LET epos == PosOf(Lower(d), "e")
        m == IF epos = 0 THEN d ELSE SubSeq(d, 1, epos - 1)
        x == IF epos = 0 THEN Ok(0) ELSE ParseExponent(SubSeq(d, epos + 1, Len(d)))
        p == PosOf(m, ".")
        ip == IF p = 0 THEN m ELSE SubSeq(m, 1, p - 1)
        fr == IF p = 0 THEN <<>> ELSE SubSeq(m, p + 1, Len(m))
    IN  IF AllDigits(ip) /\ AllDigits(fr) /\ Len(ip) + Len(fr) > 0 /\ x.exc = "none"
        THEN Fin(1, ip \o fr, x.value - Len(fr))
        ELSE NoFloat

\* float(s); NoFloat stands for the ValueError
ParseFloat(s) ==
    LET t == NumStrip(s)
        u == DropUnderscores(t)
        signed == u # <<>> /\ Head(u) \in {"+", "-"}
        sign == IF signed /\ Head(u) = "-" THEN -1 ELSE 1
        body == IF signed THEN Tail(u) ELSE u
    IN  IF ~UnderscoresOk(t) THEN NoFloat
        ELSE IF Lower(body) = <<"n", "a", "n">> THEN NaN
        ELSE IF Lower(body) \in {<<"i", "n", "f">>,
                                 <<"i", "n", "f", "i", "n", "i", "t", "y">>}
        THEN Inf(sign)
        ELSE LET d == ParseDecimal(body)
             IN  IF d.k = "err" THEN NoFloat
                 ELSE ToDouble([d EXCEPT !.sign = IF d.digits = <<>> THEN 1 ELSE sign])

\* x < y and x > y on floats: every comparison with nan is false
FloatLess(x, y) ==
    /\ x.k # "nan" /\ y.k # "nan"
    /\ \/ /\ x.k = "fin" /\ y.k = "fin"
          /\ \/ x.sign < 0 /\ y.sign > 0
             \/ x.sign > 0 /\ y.sign > 0 /\ MagLess(x, y)
             \/ x.sign < 0 /\ y.sign < 0 /\ MagLess(y, x)
       \/ x.k = "inf" /\ x.sign < 0 /\ ~(y.k = "inf" /\ y.sign < 0)
       \/ y.k = "inf" /\ y.sign > 0 /\ ~(x.k = "inf" /\ x.sign > 0)

FloatGreater(x, y) == FloatLess(y, x)

\* x == y on floats: nan equals nothing, itself included
FloatEq(x, y) == x.k # "nan" /\ y.k # "nan" /\ x = y

\* the greatest n for which the model tells whether digits / 10^n is a double
MaxPow5 == 8

RECURSIVE Pow5(_)
Pow5(n) == IF n = 0 THEN 1 ELSE 5 * Pow5(n - 1)

\* the natural number the digits d denote, modulo m
RECURSIVE DigitsMod(_, _)
DigitsMod(d, m) ==
    IF d = <<>> THEN 0
    ELSE (10 * DigitsMod(SubSeq(d, 1, Len(d) - 1), m) + DigitVal(d[Len(d)])) % m

\* the decimal x is itself a double (a whole number below 10^FloatDig, or a
\* multiple of 2^exp), so that float() of its text is exact
IsDyadic(x) ==
    \/ x.digits = <<>>
    \/ x.exp >= 0 /\ DecPt(x) <= FloatDig
    \/ x.exp < 0 /\ 0 - x.exp <= MaxPow5 /\ DigitsMod(x.digits, Pow5(0 - x.exp)) = 0

\* x + y on finite decimals, exact
DecimalSum(x, y) ==
    LET e == IF x.exp < y.exp THEN x.exp ELSE y.exp
        a == IF x.digits = <<>> THEN <<>> ELSE x.digits \o Zeros(x.exp - e)
        b == IF y.digits = <<>> THEN <<>> ELSE y.digits \o Zeros(y.exp - e)
        aLess == Len(a) < Len(b) \/ (Len(a) = Len(b) /\ FracLess(a, b))
    IN  IF x.sign = y.sign THEN Fin(x.sign, AddDigits(a, b, 0), e)
        ELSE IF aLess THEN Fin(y.sign, SubDigits(b, a, 0), e)
        ELSE Fin(x.sign, SubDigits(a, b, 0), e)

\* the double x + y is the exact sum: one of them is zero, or both are doubles
\* themselves and so is their sum
SumIsExact(x, y) ==
    \/ x.digits = <<>>
    \/ y.digits = <<>>
    \/ IsDyadic(x) /\ IsDyadic(y) /\ Len(DecimalSum(x, y).digits) <= FloatDig

\* x + y on floats; a sum of finite values that is rounded is outside the model
FloatAdd(x, y) ==
    CASE x.k = "nan" \/ y.k = "nan" -> NaN
      [] x.k = "inf" /\ y.k = "inf" -> IF x.sign = y.sign THEN x ELSE NaN
      [] x.k = "inf" /\ y.k = "fin" -> x
      [] x.k = "fin" /\ y.k = "inf" -> y
      [] x.k = "fin" /\ y.k = "fin" /\ SumIsExact(x, y) -> DecimalSum(x, y)

\* float.is_integer()
IsInteger(x) == x.k = "fin" /\ x.exp >= 0

\* str(int(x)) of an integral float
IntStr(x) ==
    IF x.digits = <<>> THEN <<"0">>
    ELSE (IF x.sign < 0 THEN <<"-">> ELSE <<>>) \o x.digits \o Zeros(x.exp)

\* str(x) of a float that is not integral: repr() writes exponent notation
\* when the value is below 10^-4
FloatStr(x) ==
    IF x.k = "nan" THEN <<"n", "a", "n">>
    ELSE IF x.k = "inf"
    THEN (IF x.sign < 0 THEN <<"-", "i", "n", "f">> ELSE <<"i", "n", "f">>)
    ELSE LET decpt == DecPt(x)
             e == NatToStr(1 - decpt)
             body ==
                 IF decpt <= -4
                 THEN <<Head(x.digits)>>
                      \o (IF Len(x.digits) > 1 THEN <<".">> \o Tail(x.digits) ELSE <<>>)
                      \o <<"e", "-">> \o (IF Len(e) < 2 THEN <<"0">> \o e ELSE e)
                 ELSE IF decpt <= 0
                 THEN <<"0", ".">> \o Zeros(0 - decpt) \o x.digits
                 ELSE SubSeq(x.digits, 1, decpt) \o <<".">>
                      \o SubSeq(x.digits, decpt + 1, Len(x.digits))
         IN  IF x.sign < 0 THEN <<"-">> \o body ELSE body

Hundred == Fin(1, <<"1">>, 2)

NoMarks == <<"?", "invalid", "?">>

\* add_student / edit_student: the try block that validates the marks typed
\* and gives their stored text; NoMarks stands for the except branch
MarksStr(marks_input) ==
    LET marks == ParseFloat(marks_input)
    IN  IF marks.k = "err" THEN NoMarks
        ELSE IF FloatLess(marks, Zero) \/ FloatGreater(marks, Hundred)
        THEN NoMarks
        ELSE IF IsInteger(marks) THEN IntStr(marks) ELSE FloatStr(marks)

----------------------------------------------------------------------------
(* The csv module: the writer's line for a row, the reader's rows of a text *)

\* csv.writer, QUOTE_MINIMAL: a field with the delimiter, the quote character
\* or a line-terminator character is quoted
NeedsQuotes(field) == \E i \in DOMAIN field : field[i] \in {",", "\"", "\r", "\n"}

RECURSIVE DoubleQuotes(_)
DoubleQuotes(field) ==
    IF field = <<>> THEN <<>>
    ELSE (IF Head(field) = "\"" THEN <<"\"", "\"">> ELSE <<Head(field)>>)
         \o DoubleQuotes(Tail(field))

CsvField(field) ==
    IF NeedsQuotes(field) THEN <<"\"">> \o DoubleQuotes(field) \o <<"\"">> ELSE field

RECURSIVE JoinFields(_)
JoinFields(row) ==
    IF row = <<>> THEN <<>>
    ELSE IF Len(row) = 1 THEN CsvField(row[1])
    ELSE CsvField(row[1]) \o <<",">> \o JoinFields(Tail(row))

\* csv.writer.writerow(row): the line written, "\r\n" at its end; a row of one
\* empty field is written as ""
CsvLine(row) ==
    (IF row = << <<>> >> THEN <<"\"", "\"">> ELSE JoinFields(row)) \o <<"\r", "\n">>

RECURSIVE Concat(_)
Concat(texts) == IF texts = <<>> THEN <<>> ELSE Head(texts) \o Concat(Tail(texts))

\* csv.reader: the parser's state, the field and the row it is reading, the rows read
ParseStart ==
    [state |-> "START_RECORD", field |-> <<>>, fields |-> <<>>, rows |-> <<>>]

\* parse_save_field, then the state st
SaveField(p, st) ==
    [p EXCEPT !.fields = Append(@, p.field), !.field = <<>>, !.state = st]

\* parse_add_char, then the state st
AddChar(p, c, st) == [p EXCEPT !.field = Append(@, c), !.state = st]

\* parse_process_char(c) for a character of the line
ParseChar(p, c) ==
    LET nl == c \in {"\n", "\r"}
    IN  CASE p.state = "START_RECORD" /\ nl -> [p EXCEPT !.state = "EAT_CRNL"]
          [] p.state = "START_FIELD" /\ nl -> SaveField(p, "EAT_CRNL")
          [] p.state \in {"START_RECORD", "START_FIELD"} /\ ~nl ->
                IF c = "\"" THEN [p EXCEPT !.state = "IN_QUOTED_FIELD"]
                ELSE IF c = "," THEN SaveField(p, "START_FIELD")
                ELSE AddChar(p, c, "IN_FIELD")
          [] p.state = "IN_FIELD" ->
                IF nl THEN SaveField(p, "EAT_CRNL")
                ELSE IF c = "," THEN SaveField(p, "START_FIELD")
                ELSE AddChar(p, c, "IN_FIELD")
          [] p.state = "IN_QUOTED_FIELD" ->
                IF c = "\"" THEN [p EXCEPT !.state = "QUOTE_IN_QUOTED_FIELD"]
                ELSE AddChar(p, c, "IN_QUOTED_FIELD")
          [] p.state = "QUOTE_IN_QUOTED_FIELD" ->
                IF c = "\"" THEN AddChar(p, c, "IN_QUOTED_FIELD")
                ELSE IF c = "," THEN SaveField(p, "START_FIELD")
                ELSE IF nl THEN SaveField(p, "EAT_CRNL")
                ELSE AddChar(p, c, "IN_FIELD")

\* parse_process_char(EOL) at the end of a line; back in START_RECORD the row is
\* handed out
ParseEol(p) ==
    LET q == CASE p.state \in {"START_FIELD", "IN_FIELD", "QUOTE_IN_QUOTED_FIELD"} ->
                     SaveField(p, "START_RECORD")
               [] p.state = "EAT_CRNL" -> [p EXCEPT !.state = "START_RECORD"]
               [] OTHER -> p
    IN  IF q.state = "START_RECORD"
        THEN [q EXCEPT !.rows = Append(@, q.fields), !.fields = <<>>]
        ELSE q

\* open(..., newline=""): a line ends after "\n", after "\r\n", after "\r" alone
\* and at the end of the text
EndsLine(text, i) ==
    \/ i = Len(text)
    \/ text[i] = "\n"
    \/ text[i] = "\r" /\ text[i + 1] # "\n"

\* the parser fed the text from its i-th character on; in EAT_CRNL the rest of
\* the line, which is its terminator, is passed over
RECURSIVE ParseFrom(_, _, _)
ParseFrom(text, i, p) ==
    IF i > Len(text) THEN p
    ELSE IF p.state = "EAT_CRNL"
    THEN ParseFrom(text, i + 1, IF EndsLine(text, i) THEN ParseEol(p) ELSE p)
    ELSE LET q == ParseChar(p, text[i])
         IN  ParseFrom(text, i + 1, IF EndsLine(text, i) THEN ParseEol(q) ELSE q)

\* list(csv.reader(f)): the rows of the text, [] for a blank line; a quoted field
\* open at the end of the text ends there
CsvRows(text) ==
    LET p == ParseFrom(text, 1, ParseStart)
    IN  IF p.state = "IN_QUOTED_FIELD" THEN Append(p.rows, Append(p.fields, p.field))
        ELSE p.rows

----------------------------------------------------------------------------
(* The record store: students.csv *)

NoFile == [exists |-> FALSE, text |-> <<>>]

\* the file right after open(CSV_FILE, "w"): truncated, nothing written yet
EmptyFile == [exists |-> TRUE, text |-> <<>>]

\* writer.writeheader()
HeaderLine == CsvLine(FIELDNAMES)

\* ensure_file_exists(): a missing file is created with the header row only
EnsureFileExists(f) == IF ~f.exists THEN [exists |-> TRUE, text |-> HeaderLine] ELSE f

\* csv.DictReader, one row: the fields under the header's names (the last of
\* equal names counts), None for the names the row is too short for, and the
\* fields beyond the header as the list under the key None (rest)
RowToDict(fieldnames, row) ==
    [fields |->
        [n \in {fieldnames[i] : i \in DOMAIN fieldnames} |->
            LET i == CHOOSE j \in DOMAIN fieldnames :
                         /\ fieldnames[j] = n
                         /\ \A k \in (j + 1)..Len(fieldnames) : fieldnames[k] # n
            IN  IF i <= Len(row) THEN row[i] ELSE None],
     rest |-> IF Len(row) > Len(fieldnames)
              THEN SubSeq(row, Len(fieldnames) + 1, Len(row)) ELSE <<>>]

\* csv.DictReader: the first row is the header, blank lines after it are skipped
DictReader(rows) ==
    IF rows = <<>> THEN <<>>
    ELSE LET NotBlank(row) == row # <<>>
             data == SelectSeq(Tail(rows), NotBlank)
         IN  [i \in DOMAIN data |-> RowToDict(rows[1], data[i])]

\* load_students() on the file f (after ensure_file_exists)
LoadStudents(f) == DictReader(CsvRows(f.text))

\* s[key], key in s, s.get(key, default)
Has(s, key) == key \in DOMAIN s.fields
Get(s, key) == s.fields[key]
GetOr(s, key, default) == IF Has(s, key) THEN s.fields[key] ELSE default

\* the dict {"roll": roll, "name": name, "marks": marks}
Student(roll, name, marks) ==
    [fields |-> [n \in {Roll, Name, Marks} |->
                    IF n = Roll THEN roll ELSE IF n = Name THEN name ELSE marks],
     rest |-> <<>>]

\* csv.DictWriter._dict_to_list: a key that is no field name is a ValueError
Writable(s) == s.rest = <<>> /\ DOMAIN s.fields \subseteq {Roll, Name, Marks}

\* csv.DictWriter.writerow: the values in FIELDNAMES order, "" for a missing
\* key and for None
DictToRow(s) ==
    [i \in DOMAIN FIELDNAMES |->
        IF Has(s, FIELDNAMES[i]) /\ Get(s, FIELDNAMES[i]) # None
        THEN Get(s, FIELDNAMES[i]) ELSE <<>>]

\* the lines save_students(students) writes: the header and one line per record
SaveLines(students) ==
    <<HeaderLine>> \o [i \in DOMAIN students |-> CsvLine(DictToRow(students[i]))]

\* the first record writerow raises ValueError on, 0 if there is none
Unwritable(students) == First([i \in DOMAIN students |-> ~Writable(students[i])])

\* the lines written before save_students ends: all of them, or those before
\* the first record writerow raises on
WrittenLines(students) ==
    IF Unwritable(students) = 0 THEN SaveLines(students)
    ELSE SubSeq(SaveLines(students), 1, Unwritable(students))

\* save_students(students): the file once every line is written
SaveStudents(students) == [exists |-> TRUE, text |-> Concat(SaveLines(students))]

\* the bytes of c in UTF-8
Utf8Len(c) == IF Ord(c) < 128 THEN 1 ELSE 2

\* the bytes of the first n characters of text in UTF-8
RECURSIVE Utf8Bytes(_, _)
Utf8Bytes(text, n) == IF n = 0 THEN 0 ELSE Utf8Bytes(text, n - 1) + Utf8Len(text[n])

\* save_students cut short by a write error (disk full, file size limit): the file
\* was truncated by open(..., "w") and holds the first n bytes of the text, for a
\* cut that falls between two characters
SavePrefix(text, n) ==
    LET Fits(k) == Utf8Bytes(text, k) = n
    IN  CASE \E k \in 0..Len(text) : Fits(k) ->
             [exists |-> TRUE, text |-> SubSeq(text, 1, CHOOSE k \in 0..Len(text) : Fits(k))]

----------------------------------------------------------------------------
(* Roll generation and lookup *)

SeqMax(q) == CHOOSE m \in {q[i] : i \in DOMAIN q} : \A j \in DOMAIN q : q[j] <= m

\* s.get("roll", "").strip() fails on None
RollIsNone(s) == Has(s, Roll) /\ Get(s, Roll) = None

\* faulty variant of GenerateRoll: the roll is always START_ROLL + the number of records
GenerateRollByCount(students) == Ok(NatToStr(START_ROLL + Len(students)))

\* the roll numbers collected from the records whose roll text r (stripped, or as
\* stored) passes r.isdigit(), or the exception of the first record the loop
\* raises on: AttributeError where the roll is None, ValueError where r.isdigit()
\* holds and int(r) fails (a superscript digit)
NumericRollsOf(students, stripped) ==
    LET Text(s) == IF stripped THEN Strip(GetOr(s, Roll, <<>>)) ELSE GetOr(s, Roll, <<>>)
        Raises(s) == RollIsNone(s) \/ (IsDigitStr(Text(s)) /\ ~IsDecimalStr(Text(s)))
        IsNumeric(s) == IsDigitStr(Text(s))
        bad == First([i \in DOMAIN students |-> Raises(students[i])])
        withNumeric == SelectSeq(students, IsNumeric)
    IN  IF bad # 0
        THEN Exc(IF RollIsNone(students[bad]) THEN "AttributeError" ELSE "ValueError")
        ELSE Ok([i \in DOMAIN withNumeric |-> DigitsToInt(Text(withNumeric[i]))])

\* the roll generate_roll returns for the numeric rolls found
NextRoll(students, numeric_rolls) ==
    IF numeric_rolls.exc # "none" THEN numeric_rolls
    ELSE IF numeric_rolls.value = <<>> THEN Ok(NatToStr(START_ROLL + Len(students)))
    ELSE Ok(NatToStr(SeqMax(numeric_rolls.value) + 1))

\* faulty variant of GenerateRoll: the rolls are tested with isdigit() without strip()
GenerateRollNoStrip(students) ==
    IF students = <<>> THEN Ok(NatToStr(START_ROLL))
    ELSE NextRoll(students, NumericRollsOf(students, FALSE))

\* generate_roll(students)
GenerateRoll(students) ==
    IF students = <<>> THEN Ok(NatToStr(START_ROLL))
    ELSE NextRoll(students, NumericRollsOf(students, TRUE))

\* s["roll"].strip(): the exception it raises, "none" if it gives a text
RollExc(s) ==
    IF ~Has(s, Roll) THEN "KeyError"
    ELSE IF Get(s, Roll) = None THEN "AttributeError"
    ELSE "none"

\* s["roll"].strip() == roll
HasRoll(s, roll) == RollExc(s) = "none" /\ Strip(Get(s, Roll)) = roll

\* faulty variant of RemoveByRoll: the stored roll is compared without strip()
RemoveByRollExact(students, roll) ==
    LET Kept(s) == Get(s, Roll) # roll IN SelectSeq(students, Kept)

\* delete_student: [s for s in students if s["roll"].strip() != roll]
RemoveByRoll(students, roll) ==
    LET Kept(s) == ~HasRoll(s, roll) IN SelectSeq(students, Kept)

\* faulty variant of ApplyUpdate: the loop has no break, every match is updated
ApplyUpdateAll(students, roll, new_name, new_marks_str) ==
    [i \in DOMAIN students |->
        IF HasRoll(students[i], roll)
        THEN [students[i] EXCEPT !.fields[Name] = new_name,
                                 !.fields[Marks] = new_marks_str]
        ELSE students[i]]

\* edit_student, "apply update": the first record whose trimmed roll is roll gets
\* the new name and marks, then break
ApplyUpdate(students, roll, new_name, new_marks_str) ==
    [i \in DOMAIN students |->
        IF /\ HasRoll(students[i], roll)
           /\ \A j \in 1..(i - 1) : ~HasRoll(students[j], roll)
        THEN [students[i] EXCEPT !.fields[Name] = new_name,
                                 !.fields[Marks] = new_marks_str]
        ELSE students[i]]

\* find_by_roll(students, roll): the index of the first match, 0 for None; the
\* loop raises on a record without a roll text that comes before the match
FindByRoll(students, roll) ==
    LET r == Strip(roll)
        Stops(s) == RollExc(s) # "none" \/ HasRoll(s, r)
        i == First([k \in DOMAIN students |-> Stops(students[k])])
    IN  IF i = 0 THEN Ok(0)
        ELSE IF RollExc(students[i]) # "none" THEN Exc(RollExc(students[i]))
        ELSE Ok(i)

----------------------------------------------------------------------------
(* Statistics helpers *)

\* the first loop of topper_and_average: float(s["marks"]), 0.0 on any exception
MarksOrZero(s) ==
    IF ~Has(s, Marks) \/ GetOr(s, Marks, None) = None THEN Zero
    ELSE LET m == ParseFloat(Get(s, Marks)) IN IF m.k = "err" THEN Zero ELSE m

\* float(s.get("marks", 0)) in the topper selection
TopperMarks(s) ==
    IF ~Has(s, Marks) THEN Ok(Zero)
    ELSE IF Get(s, Marks) = None THEN Exc("TypeError")
    ELSE IF ParseFloat(Get(s, Marks)).k = "err" THEN Exc("ValueError")
    ELSE Ok(ParseFloat(Get(s, Marks)))

\* total = 0.0; for m in marks_list: total += m   (the first n elements)
RECURSIVE SumTo(_, _)
SumTo(q, n) == IF n = 0 THEN Zero ELSE FloatAdd(SumTo(q, n - 1), q[n])

\* max(marks_list): the first element, replaced by each later one that is greater
RECURSIVE MaxTo(_, _)
MaxTo(q, n) ==
    IF n = 1 THEN q[1]
    ELSE LET m == MaxTo(q, n - 1) IN IF FloatGreater(q[n], m) THEN q[n] ELSE m

----------------------------------------------------------------------------
(* Listing helpers: list.sort by int(roll), else by the roll text; the table *)

\* int(text) succeeds: blanks around, an optional sign, then digits, "_" allowed
\* between two of them
IsIntText(text) ==
    LET t == NumStrip(text)
        d == IF t # <<>> /\ Head(t) \in {"+", "-"} THEN Tail(t) ELSE t
    IN  UnderscoresOk(d) /\ IsDecimalStr(DropUnderscores(d))

\* int(text) where it succeeds
IntOf(text) ==
    LET t == DropUnderscores(NumStrip(text))
    IN  IF t # <<>> /\ Head(t) = "-" THEN 0 - DigitsToInt(Tail(t))
        ELSE IF t # <<>> /\ Head(t) = "+" THEN DigitsToInt(Tail(t))
        ELSE DigitsToInt(t)

\* int(x["roll"]) succeeds
IntKeyOk(s) == Has(s, Roll) /\ Get(s, Roll) # None /\ IsIntText(Get(s, Roll))

KeyLess(numeric, a, b) ==
    IF numeric THEN IntOf(Get(a, Roll)) < IntOf(Get(b, Roll))
    ELSE StrLess(Get(a, Roll), Get(b, Roll))

\* x put into the sorted list q behind every element that is not greater
RECURSIVE InsertSorted(_, _, _)
InsertSorted(numeric, x, q) ==
    IF q = <<>> THEN <<x>>
    ELSE IF KeyLess(numeric, x, Head(q)) THEN <<x>> \o q
    ELSE <<Head(q)>> \o InsertSorted(numeric, x, Tail(q))

\* list.sort (stable) of the first n students
RECURSIVE SortTo(_, _, _)
SortTo(numeric, q, n) ==
    IF n = 0 THEN <<>> ELSE InsertSorted(numeric, q[n], SortTo(numeric, q, n - 1))

\* list_students: the order printed, or the exception of the second sort: a
\* missing roll is a KeyError, a None among the keys is a TypeError as soon as
\* two keys are compared
SortedForList(students) ==
    LET numeric == \A i \in DOMAIN students : IntKeyOk(students[i])
    IN  IF numeric THEN Ok(SortTo(TRUE, students, Len(students)))
        ELSE IF \E i \in DOMAIN students : ~Has(students[i], Roll) THEN Exc("KeyError")
        ELSE IF \E i \in DOMAIN students : Get(students[i], Roll) = None
        THEN (IF Len(students) > 1 THEN Exc("TypeError") ELSE Ok(students))
        ELSE Ok(SortTo(FALSE, students, Len(students)))

\* "{:10} | {:30} | {:6}".format(r["roll"], r["name"], r["marks"]): the exception
\* it raises, "none" if it gives the line
FormatExc(r) ==
    IF ~(Has(r, Roll) /\ Has(r, Name) /\ Has(r, Marks)) THEN "KeyError"
    ELSE IF None \in {Get(r, Roll), Get(r, Name), Get(r, Marks)} THEN "TypeError"
    ELSE "none"

\* the first row the table cannot show, 0 if it shows them all
Unprintable(rows) == First([i \in DOMAIN rows |-> FormatExc(rows[i]) # "none"])

----------------------------------------------------------------------------
(* What an operation leaves behind *)

NoFault == [at |-> "none", n |-> 0]

\* the texts typed at the prompts of one operation
Typed(choice, roll, name, marks, confirm, query) ==
    [choice |-> choice, roll |-> roll, name |-> name, marks |-> marks,
     confirm |-> confirm, query |-> query]

NoLast ==
    [op |-> "none", inp |-> Typed(<<>>, <<>>, <<>>, <<>>, <<>>, <<>>),
     before |-> NoFile, target |-> NoFile, out |-> "none", result |-> <<>>]

\* one menu selection has run: the file it leaves, what it printed (out, result)
\* and where main() is afterwards.  before is the file it loaded, target the file
\* a complete save_students would leave (before itself when nothing is saved).
Step(op, inp, before, target, newFile, out, result, newPc) ==
    /\ file' = newFile
    /\ last' = [op |-> op, inp |-> inp, before |-> before, target |-> target,
                out |-> out, result |-> result]
    /\ pc' = newPc
    /\ budget' = budget - 1
    /\ UNCHANGED reportlab

\* the operation returns without saving
Return(op, inp, before, out, result) ==
    Step(op, inp, before, before, before, out, result, "menu")

\* an exception no handler catches leaves main(): the process ends with a
\* traceback; out is the exception ("storage error" for an OSError)
Raise(op, inp, before, out, result) ==
    Step(op, inp, before, before, before, out, result, "crashed")

\* save_students(new) at the end of a mutating operation, under the fault given.
\* open(..., "w") truncates the file; the lines are written one by one, until a
\* record with a key that is no field name raises ValueError; the file is
\* closed, and what was written flushed, on every way out.  A write error leaves
\* the first fault.n bytes, Ctrl-C between two writerow calls the first fault.n lines.
Save(op, inp, before, new, fault, out, result) ==
    LET target == SaveStudents(new)
        lines == WrittenLines(new)
        written == Concat(lines)
    IN  IF fault.at = "open"
        THEN Step(op, inp, before, target, before, "storage error", result, "crashed")
        ELSE IF fault.at = "write"
        THEN /\ fault.n < Utf8Bytes(written, Len(written))
             /\ Step(op, inp, before, target, SavePrefix(written, fault.n),
                     "storage error", result, "crashed")
        ELSE IF fault.at = "interrupt"
        THEN /\ fault.n <= Len(lines)
             /\ Step(op, inp, before, target,
                     [exists |-> TRUE, text |-> Concat(SubSeq(lines, 1, fault.n))],
                     "interrupted", result, "exited")
        ELSE IF Unwritable(new) # 0
        THEN Step(op, inp, before, target, [exists |-> TRUE, text |-> written],
                  "ValueError", result, "crashed")
        ELSE Step(op, inp, before, target, target, out, result, "menu")

\* the table of search_student and list_students: the rows are printed one by one
\* until one cannot be formatted; result is what was printed
PrintTable(op, inp, before, rows, out) ==
    IF Unprintable(rows) # 0
    THEN Raise(op, inp, before, FormatExc(rows[Unprintable(rows)]),
               SubSeq(rows, 1, Unprintable(rows) - 1))
    ELSE Return(op, inp, before, out, rows)

----------------------------------------------------------------------------
(* The operations *)

\* main(): choice = input(...).strip(); if choice == option
Picks(choice, option) == Strip(choice) = <<option>>

\* the texts among choices that main() takes for option
Choosing(choices, option) == {c \in choices : Picks(c, option)}

\* main() has run ensure_file_exists(): the file it leaves and where main() is
Started(newFile, out, newPc) ==
    /\ pc' = newPc
    /\ file' = newFile
    /\ last' = [NoLast EXCEPT !.op = "start", !.before = file,
                              !.target = EnsureFileExists(file), !.out = out]

\* main(): ensure_file_exists() before the first menu.  Ctrl-C before the file
\* is looked at or opened (fault.n = 0) ends the program with the file as it
\* was.  An existing file is not opened.  A missing one is opened with mode "w"
\* and the header written: the open can fail, the write can stop after fault.n
\* bytes, Ctrl-C can arrive after the open with no line written (0) or with the
\* header written (1); the file is closed on every way out.
Start(fault) ==
    /\ pc = "start"
    /\ fault.at # "read"
    /\ IF fault.at = "interrupt" /\ fault.n = 0
       THEN \/ Started(file, "interrupted", "exited")
            \/ /\ ~file.exists
               /\ Started(EmptyFile, "interrupted", "exited")
       ELSE IF file.exists THEN Started(file, "ready", "menu")
       ELSE IF fault.at = "open" THEN Started(file, "storage error", "crashed")
       ELSE IF fault.at = "write"
       THEN /\ fault.n < Utf8Bytes(HeaderLine, Len(HeaderLine))
            /\ Started(SavePrefix(HeaderLine, fault.n), "storage error", "crashed")
       ELSE IF fault.at = "interrupt"
       THEN /\ fault.n = 1
            /\ Started(EnsureFileExists(file), "interrupted", "exited")
       ELSE Started(EnsureFileExists(file), "ready", "menu")
    /\ UNCHANGED <<reportlab, assigned, budget>>

\* choice "1": add_student()
AddStudent(choice, name_in, marks_in, fault) ==
    /\ pc = "menu" /\ budget > 0
    /\ Picks(choice, "1")
    /\ LET before == EnsureFileExists(file)
           students == LoadStudents(before)
           roll == GenerateRoll(students)
           name == Strip(name_in)
           marks_str == MarksStr(Strip(marks_in))
           new == Append(students, Student(roll.value, name, marks_str))
           inp == Typed(choice, <<>>, name_in, marks_in, <<>>, <<>>)
       IN  /\ IF fault.at = "read" THEN Raise("add", inp, before, "storage error", <<>>)
              ELSE IF roll.exc # "none" THEN Raise("add", inp, before, roll.exc, <<>>)
              ELSE IF name = <<>> THEN Return("add", inp, before, "name empty", roll.value)
              ELSE IF marks_str = NoMarks
              THEN Return("add", inp, before, "invalid marks", roll.value)
              ELSE Save("add", inp, before, new, fault, "added", roll.value)
           /\ assigned' = IF last'.out = "added"
                          THEN Append(assigned, DigitsToInt(roll.value)) ELSE assigned

\* choice "2": delete_student()
DeleteStudent(choice, roll_in, confirm_in, fault) ==
    /\ pc = "menu" /\ budget > 0
    /\ Picks(choice, "2")
    /\ LET before == EnsureFileExists(file)
           students == LoadStudents(before)
           roll == Strip(roll_in)
           found == FindByRoll(students, roll)
           confirm == Lower(Strip(confirm_in))
           noRoll == First([i \in DOMAIN students |-> RollExc(students[i]) # "none"])
           new == RemoveByRoll(students, roll)
           inp == Typed(choice, roll_in, <<>>, <<>>, confirm_in, <<>>)
       IN  IF fault.at = "read" THEN Raise("delete", inp, before, "storage error", <<>>)
           ELSE IF roll = <<>> THEN Return("delete", inp, before, "empty roll", <<>>)
           ELSE IF found.exc # "none" THEN Raise("delete", inp, before, found.exc, <<>>)
           ELSE IF found.value = 0 THEN Return("delete", inp, before, "not found", <<>>)
           ELSE IF ~Has(students[found.value], Name)
           THEN Raise("delete", inp, before, "KeyError", <<>>)
           ELSE IF confirm # <<"y">> THEN Return("delete", inp, before, "cancelled", <<>>)
           ELSE IF noRoll # 0
           THEN Raise("delete", inp, before, RollExc(students[noRoll]), <<>>)
           ELSE Save("delete", inp, before, new, fault, "deleted", <<>>)
    /\ UNCHANGED assigned

\* search_student, one record: query in s["roll"].lower() or query in
\* s["name"].lower(); the name is looked at only when the roll does not match
SearchExc(s, query) ==
    IF RollExc(s) # "none" THEN RollExc(s)
    ELSE IF Contains(Lower(Get(s, Roll)), query) THEN "none"
    ELSE IF ~Has(s, Name) THEN "KeyError"
    ELSE IF Get(s, Name) = None THEN "AttributeError"
    ELSE "none"

\* choice "3": search_student()
SearchStudent(choice, query_in, fault) ==
    /\ pc = "menu" /\ budget > 0
    /\ Picks(choice, "3")
    /\ fault.at \in {"none", "read"}
    /\ LET before == EnsureFileExists(file)
           students == LoadStudents(before)
           query == Lower(Strip(query_in))
           failed == First([i \in DOMAIN students |->
                               SearchExc(students[i], query) # "none"])
           Matches(s) == \/ Contains(Lower(Get(s, Roll)), query)
                         \/ Contains(Lower(Get(s, Name)), query)
           results == SelectSeq(students, Matches)
           inp == Typed(choice, <<>>, <<>>, <<>>, <<>>, query_in)
       IN  IF fault.at = "read" THEN Raise("search", inp, before, "storage error", <<>>)
           ELSE IF query = <<>> THEN Return("search", inp, before, "empty query", <<>>)
           ELSE IF failed # 0
           THEN Raise("search", inp, before, SearchExc(students[failed], query), <<>>)
           ELSE IF results = <<>> THEN Return("search", inp, before, "no matches", <<>>)
           ELSE PrintTable("search", inp, before, results, "found")
    /\ UNCHANGED assigned

\* choice "4": edit_student()
EditStudent(choice, roll_in, name_in, marks_in, fault) ==
    /\ pc = "menu" /\ budget > 0
    /\ Picks(choice, "4")
    /\ LET before == EnsureFileExists(file)
           students == LoadStudents(before)
           roll == Strip(roll_in)
           found == FindByRoll(students, roll)
           student == students[found.value]
           new_name == IF Strip(name_in) = <<>> THEN Get(student, Name)
                       ELSE Strip(name_in)
           new_marks_input == Strip(marks_in)
           new_marks_str == IF new_marks_input = <<>> THEN Get(student, Marks)
                            ELSE MarksStr(new_marks_input)
           new == ApplyUpdate(students, roll, new_name, new_marks_str)
           inp == Typed(choice, roll_in, name_in, marks_in, <<>>, <<>>)
       IN  IF fault.at = "read" THEN Raise("edit", inp, before, "storage error", <<>>)
           ELSE IF roll = <<>> THEN Return("edit", inp, before, "empty roll", <<>>)
           ELSE IF found.exc # "none" THEN Raise("edit", inp, before, found.exc, <<>>)
           ELSE IF found.value = 0 THEN Return("edit", inp, before, "not found", <<>>)
           ELSE IF ~Has(student, Name) \/ ~Has(student, Marks)
           THEN Raise("edit", inp, before, "KeyError", <<>>)
           ELSE IF new_marks_str = NoMarks
           THEN Return("edit", inp, before, "invalid marks", <<>>)
           ELSE Save("edit", inp, before, new, fault, "updated", <<>>)
    /\ UNCHANGED assigned

\* choice "5": list_students()
ListStudents(choice, fault) ==
    /\ pc = "menu" /\ budget > 0
    /\ Picks(choice, "5")
    /\ fault.at \in {"none", "read"}
    /\ LET before == EnsureFileExists(file)
           students == LoadStudents(before)
           sorted == SortedForList(students)
           inp == Typed(choice, <<>>, <<>>, <<>>, <<>>, <<>>)
       IN  IF fault.at = "read" THEN Raise("list", inp, before, "storage error", <<>>)
           ELSE IF students = <<>> THEN Return("list", inp, before, "no records", <<>>)
           ELSE IF sorted.exc # "none" THEN Raise("list", inp, before, sorted.exc, <<>>)
           ELSE PrintTable("list", inp, before, sorted.value, "listed")
    /\ UNCHANGED assigned

\* float(s.get("marks", 0)) raises
NoTopperMarks(s) == TopperMarks(s).exc # "none"

\* f" - {t['name']} (Roll {t['roll']}) ... {t['marks']}" raises KeyError
NoTopperLine(t) == ~(Has(t, Name) /\ Has(t, Roll) /\ Has(t, Marks))

\* toppers = [s for s in students if float(s.get("marks", 0)) == max_marks]
Toppers(students, max_marks) ==
    LET IsTopper(s) == FloatEq(TopperMarks(s).value, max_marks)
    IN  SelectSeq(students, IsTopper)

\* the lines printed: average (total and count), top marks and toppers, unless a
\* topper's line cannot be formatted
Report(total, count, max_marks, toppers) ==
    [exc |-> IF \E i \in DOMAIN toppers : NoTopperLine(toppers[i])
             THEN "KeyError" ELSE "none",
     value |-> [total |-> total, count |-> count, max_marks |-> max_marks,
                toppers |-> toppers]]

\* topper_and_average() from marks_list on; failed is the first record the
\* topper selection raises on, 0 if there is none
StatisticsOf(students, marks_list, failed) ==
    IF failed # 0 THEN Exc(TopperMarks(students[failed]).exc)
    ELSE LET max_marks == MaxTo(marks_list, Len(marks_list))
         IN  Report(SumTo(marks_list, Len(marks_list)), Len(marks_list), max_marks,
                    Toppers(students, max_marks))

\* topper_and_average() once the records are loaded and there are some: what it
\* prints, or the exception that ends it.  The average printed is total / count
\* rounded to two places; the model keeps total and count.
Statistics(students) ==
    StatisticsOf(students, [i \in DOMAIN students |-> MarksOrZero(students[i])],
                 First([i \in DOMAIN students |-> NoTopperMarks(students[i])]))

\* choice "6": topper_and_average()
TopperAndAverage(choice, fault) ==
    /\ pc = "menu" /\ budget > 0
    /\ Picks(choice, "6")
    /\ fault.at \in {"none", "read"}
    /\ LET before == EnsureFileExists(file)
           students == LoadStudents(before)
           stats == Statistics(students)
           inp == Typed(choice, <<>>, <<>>, <<>>, <<>>, <<>>)
       IN  IF fault.at = "read" THEN Raise("stats", inp, before, "storage error", <<>>)
           ELSE IF students = <<>> THEN Return("stats", inp, before, "no records", <<>>)
           ELSE IF stats.exc # "none" THEN Raise("stats", inp, before, stats.exc, stats.value)
           ELSE Return("stats", inp, before, "stats", stats.value)
    /\ UNCHANGED assigned

\* export_pdf(): the first row of the table
PdfHeader == <<<<"R", "o", "l", "l">>, <<"N", "a", "m", "e">>, <<"M", "a", "r", "k", "s">>>>

\* choice "7": export_pdf(); result is the table handed to reportlab.  doc.build
\* opens and writes students_report.pdf: an OSError there, or Ctrl-C, leaves
\* export_pdf as any other exception does.  The PDF is larger than any fault.n
\* here and its bytes are not modelled.
ExportPdf(choice, fault) ==
    /\ pc = "menu" /\ budget > 0
    /\ Picks(choice, "7")
    /\ LET before == EnsureFileExists(file)
           students == LoadStudents(before)
           NoCells(s) == ~(Has(s, Roll) /\ Has(s, Name) /\ Has(s, Marks))
           data == <<PdfHeader>>
                   \o [i \in DOMAIN students |->
                          <<Get(students[i], Roll), Get(students[i], Name),
                            Get(students[i], Marks)>>]
           inp == Typed(choice, <<>>, <<>>, <<>>, <<>>, <<>>)
       IN  IF ~reportlab
           THEN /\ fault.at = "none"
                /\ Return("pdf", inp, file, "no reportlab", <<>>)
           ELSE IF fault.at = "read"
           THEN Raise("pdf", inp, before, "storage error", <<>>)
           ELSE IF First([i \in DOMAIN students |-> NoCells(students[i])]) # 0
           THEN Raise("pdf", inp, before, "KeyError", <<>>)
           ELSE IF fault.at \in {"open", "write"}
           THEN Raise("pdf", inp, before, "storage error", data)
           ELSE IF fault.at = "interrupt"
           THEN Step("pdf", inp, before, before, before, "interrupted", data, "exited")
           ELSE Return("pdf", inp, before, "pdf", data)
    /\ UNCHANGED assigned

\* choice "8": export_csv(); result is the text written to students_export.csv
\* (nothing when it is not opened).  The export file is written as save_students
\* writes the store: the open can fail, the write can stop after fault.n bytes,
\* Ctrl-C can arrive after fault.n lines.
ExportCsv(choice, fault) ==
    /\ pc = "menu" /\ budget > 0
    /\ Picks(choice, "8")
    /\ LET before == EnsureFileExists(file)
           students == LoadStudents(before)
           lines == WrittenLines(students)
           inp == Typed(choice, <<>>, <<>>, <<>>, <<>>, <<>>)
       IN  IF fault.at = "read" THEN Raise("csv", inp, before, "storage error", <<>>)
           ELSE IF students = <<>>
           THEN Return("csv", inp, before, "no records", <<>>)
           ELSE IF fault.at = "open"
           THEN Raise("csv", inp, before, "storage error", <<>>)
           ELSE IF fault.at = "write"
           THEN /\ fault.n < Utf8Bytes(Concat(lines), Len(Concat(lines)))
                /\ Raise("csv", inp, before, "storage error",
                         SavePrefix(Concat(lines), fault.n).text)
           ELSE IF fault.at = "interrupt"
           THEN /\ fault.n <= Len(lines)
                /\ Step("csv", inp, before, before, before, "interrupted",
                        Concat(SubSeq(lines, 1, fault.n)), "exited")
           ELSE IF Unwritable(students) # 0
           THEN Raise("csv", inp, before, "ValueError", Concat(WrittenLines(students)))
           ELSE Return("csv", inp, before, "exported", Concat(SaveLines(students)))
    /\ UNCHANGED assigned

\* choice "9": leave the loop
Exit(choice) ==
    /\ pc = "menu"
    /\ Picks(choice, "9")
    /\ pc' = "exited"
    /\ last' = [NoLast EXCEPT !.op = "exit", !.inp.choice = choice, !.before = file,
                              !.target = file, !.out = "goodbye"]
    /\ UNCHANGED <<file, reportlab, assigned, budget>>

MenuChoices == {<<Digits[i]>> : i \in 2..10}

\* any other choice: "Invalid option", and the menu again
InvalidOption(choice) ==
    /\ pc = "menu" /\ budget > 0
    /\ Strip(choice) \notin MenuChoices
    /\ Return("invalid", Typed(choice, <<>>, <<>>, <<>>, <<>>, <<>>), file,
              "invalid option", <<>>)
    /\ UNCHANGED assigned

\* KeyboardInterrupt at an input() prompt: caught around main(), the process ends
Interrupt ==
    /\ pc = "menu"
    /\ pc' = "exited"
    /\ last' = [NoLast EXCEPT !.op = "interrupt", !.before = file, !.target = file,
                              !.out = "interrupted"]
    /\ UNCHANGED <<file, reportlab, assigned, budget>>

\* end of input at an input() prompt, of the menu or of an operation: EOFError,
\* which nothing catches; no operation has written before its last prompt
EndOfInput ==
    /\ pc = "menu"
    /\ pc' = "crashed"
    /\ last' = [NoLast EXCEPT !.op = "eof", !.before = file, !.target = file,
                              !.out = "EOFError"]
    /\ UNCHANGED <<file, reportlab, assigned, budget>>

----------------------------------------------------------------------------
(* Texts used as file contents and as keyboard input *)

T1001 == <<"1", "0", "0", "1">>
T1002 == <<"1", "0", "0", "2">>
T1003 == <<"1", "0", "0", "3">>
Al == <<"A", "l">>
Bo == <<"B", "o">>
Cy == <<"C", "y">>
Blank == <<" ">>
Eva == <<"É", "v", "a">>
Abc == <<"a", "b", "c">>
Nan == <<"n", "a", "n">>

HeaderOnly == [exists |-> TRUE, text |-> HeaderLine]

\* the file with the header and one line per row, as csv.writer writes them
FileOf(rows) ==
    [exists |-> TRUE, text |-> HeaderLine \o Concat([i \in DOMAIN rows |-> CsvLine(rows[i])])]

\* a file of the lines given, each with "\r\n" at its end
FileOfLines(rows) ==
    [exists |-> TRUE, text |-> Concat([i \in DOMAIN rows |-> CsvLine(rows[i])])]

\* students.csv as the program finds it: absent, as an earlier run left it, or
\* edited by hand and still a header with three-field records (rolls that are
\* padded, not numeric, a superscript digit, empty or repeated; marks that are no
\* number; a quoted name and lines that end in "\n" only)
InitialFiles ==
    { NoFile, EmptyFile, HeaderOnly,
      FileOf(<< <<T1001, Al, <<"8", "5">>>> >>),
      FileOf(<< <<T1001, Al, <<"8", "5">>>>, <<T1002, Bo, <<"7", ".", "5">>>> >>),
      FileOf(<< <<<<" ", "7", " ">>, Al, Abc>> >>),
      FileOf(<< <<Abc, Eva, <<"9", "0">>>> >>),
      FileOf(<< <<T1001, Al, <<"9", "0">>>>, <<<<"²">>, Bo, <<"4", "0">>>> >>),
      FileOf(<< <<<<>>, Bo, <<"5", "0">>>>, <<T1001, Al, <<"9", "0">>>> >>),
      FileOf(<< <<T1001, Al, <<"9", "0">>>>, <<T1001, Bo, <<"9", "0">>>> >>),
      FileOf(<< <<T1002, Bo, <<"9", "0">>>>, <<T1003, Cy, <<"9", "0", ".", "0">>>>,
                <<T1001, Al, <<"5", "0">>>> >>),
      FileOf(<< <<T1001, Al, Nan>>, <<T1002, Bo, <<"4", "0">>>> >>),
      [exists |-> TRUE,
       text |-> JoinFields(FIELDNAMES) \o <<"\n">>
                \o JoinFields(<<T1001, <<"A", "l", ",", " ", "B">>, <<"8", "e", "1">>>>)
                \o <<"\n">>] }

\* students.csv edited by hand or cut short so that it is no header with
\* three-field records any more: a row with a fourth field, a row without
\* marks, a blank line, a torn line, other names in the header, no header
DamagedFiles ==
    { FileOf(<< <<T1002, Bo, <<"5", "0">>>>, <<T1001, Al, <<"8", "5">>, <<"x">>>> >>),
      FileOf(<< <<T1001, Al>>, <<T1002, Bo, <<"5", "0">>>> >>),
      [exists |-> TRUE,
       text |-> HeaderLine \o <<"\r", "\n">> \o CsvLine(<<T1001, Al, <<"8", "5">>>>)],
      [exists |-> TRUE, text |-> HeaderLine \o <<"1", "0", "0">>],
      FileOfLines(<< <<<<"i", "d">>, Name, Marks>>, <<T1001, Al, <<"8", "5">>>> >>),
      FileOfLines(<< <<Name, Roll, Marks>>, <<Al>>, <<Bo, T1002, <<"5", "0">>>> >>),
      FileOfLines(<< <<Roll, Name>>, <<T1001, Al>> >>),
      [exists |-> TRUE, text |-> <<"\r", "\n">> \o CsvLine(<<T1001, Al, <<"8", "5">>>>)] }

ChoiceInputs ==
    MenuChoices \cup {<<"\t", "9", "\r">>, <<"0">>, <<>>, <<"1", "0">>}

NameInputs == {Blank, <<" ", "C", "y", " ">>}

MarksInputs ==
    { <<>>, <<" ", "7", ".", "1", "2", "5", "\r">>, <<"1", "_", "0", "e", "1">>,
      Nan, Abc, <<"1", "0", "1">>, <<"-", "1">> }

\* the marks typed at the prompt of an edit
EditMarksInputs == {<<>>, <<" ", "7", ".", "1", "2", "5", "\r">>, Nan, <<"1", "0", "1">>}

RollInputs == {Blank, <<NBSP, "1", "0", "0", "1", "\r">>, T1002, Abc, <<"7">>}

ConfirmInputs == {<<" ", "Y", "\r">>, <<"n">>, <<"y", "e", "s">>, <<>>}

QueryInputs == {Blank, <<"0", "0">>, <<"A", "L">>, <<"É", "V">>}

\* the inputs of the runs that start from an empty store
PlainNames == {<<>>, Al}
PlainMarks == {<<>>, <<"8", "5">>, <<"7", ".", "5">>}
PlainRolls == {T1001, T1002, T1003}
PlainConfirms == {<<"y">>, <<"n">>}
PlainChoices == MenuChoices \cup {<<"0">>}

\* the inputs of the runs on a disk that can fail
FaultNames == {Al}
FaultMarks == {<<>>, <<"8", "5">>}
FaultRolls == {T1001}
FaultConfirms == {<<"y">>}

----------------------------------------------------------------------------
(* Bounds of the model *)

MaxSteps == 1

MaxStepsPlain == 4

MaxCut == 2

MaxTorn == 3

\* storage faults: the file cannot be read, cannot be opened for writing, the
\* write stops after n bytes (disk full: up to MaxTorn bytes, or the header and
\* up to MaxTorn more), or Ctrl-C arrives after n lines
Faults ==
    {NoFault, [at |-> "read", n |-> 0], [at |-> "open", n |-> 0]}
    \cup {[at |-> "write", n |-> k] : k \in 0..MaxTorn}
    \cup {[at |-> "write", n |-> Len(HeaderLine) + k] : k \in 0..MaxTorn}
    \cup {[at |-> "interrupt", n |-> k] : k \in 0..MaxCut}

----------------------------------------------------------------------------
(* Specifications *)

InitWith(files, libs, steps) ==
    /\ file \in files
    /\ reportlab \in libs
    /\ pc = "start"
    /\ last = NoLast
    /\ assigned = <<>>
    /\ budget = steps

\* any store of records, reportlab installed, a reliable disk
Init == InitWith(InitialFiles, {TRUE}, MaxSteps)

Next ==
    \/ Start(NoFault)
    \/ \E choice \in Choosing(ChoiceInputs, "1"),
          name \in NameInputs, marks \in MarksInputs :
           AddStudent(choice, name, marks, NoFault)
    \/ \E choice \in Choosing(ChoiceInputs, "2"),
          roll \in RollInputs, confirm \in ConfirmInputs :
           DeleteStudent(choice, roll, confirm, NoFault)
    \/ \E choice \in ChoiceInputs, query \in QueryInputs :
           SearchStudent(choice, query, NoFault)
    \/ \E choice \in Choosing(ChoiceInputs, "4"),
          roll \in RollInputs, name \in NameInputs, marks \in EditMarksInputs :
           EditStudent(choice, roll, name, marks, NoFault)
    \/ \E choice \in ChoiceInputs : ListStudents(choice, NoFault)
    \/ \E choice \in ChoiceInputs : TopperAndAverage(choice, NoFault)
    \/ \E choice \in ChoiceInputs : ExportPdf(choice, NoFault)
    \/ \E choice \in ChoiceInputs : ExportCsv(choice, NoFault)
    \/ \E choice \in ChoiceInputs : Exit(choice)
    \/ \E choice \in ChoiceInputs : InvalidOption(choice)
    \/ Interrupt
    \/ EndOfInput

Spec == Init /\ [][Next]_vars

\* the store starts empty (absent or header only), a reliable disk
InitEmpty == InitWith({NoFile, HeaderOnly}, BOOLEAN, MaxStepsPlain)

NextEmpty ==
    \/ Start(NoFault)
    \/ \E choice \in Choosing(PlainChoices, "1"),
          name \in PlainNames, marks \in PlainMarks :
           AddStudent(choice, name, marks, NoFault)
    \/ \E choice \in Choosing(PlainChoices, "2"),
          roll \in PlainRolls, confirm \in PlainConfirms :
           DeleteStudent(choice, roll, confirm, NoFault)
    \/ \E choice \in PlainChoices : SearchStudent(choice, <<"0", "0">>, NoFault)
    \/ \E choice \in Choosing(PlainChoices, "4"),
          roll \in PlainRolls, name \in PlainNames \cup {Bo}, marks \in PlainMarks :
           EditStudent(choice, roll, name, marks, NoFault)
    \/ \E choice \in PlainChoices : ListStudents(choice, NoFault)
    \/ \E choice \in PlainChoices : TopperAndAverage(choice, NoFault)
    \/ \E choice \in PlainChoices : ExportPdf(choice, NoFault)
    \/ \E choice \in PlainChoices : ExportCsv(choice, NoFault)
    \/ \E choice \in PlainChoices : Exit(choice)
    \/ \E choice \in PlainChoices : InvalidOption(choice)
    \/ Interrupt
    \/ EndOfInput

SpecEmpty == InitEmpty /\ [][NextEmpty]_vars

\* the store starts empty or damaged, the disk can fail
InitFault == InitWith({NoFile, HeaderOnly} \cup DamagedFiles, BOOLEAN, MaxSteps)

NextFault ==
    \/ \E fault \in Faults : Start(fault)
    \/ \E choice \in Choosing(PlainChoices, "1"),
          name \in FaultNames, marks \in FaultMarks, fault \in Faults :
           AddStudent(choice, name, marks, fault)
    \/ \E choice \in Choosing(PlainChoices, "2"),
          roll \in FaultRolls, confirm \in FaultConfirms, fault \in Faults :
           DeleteStudent(choice, roll, confirm, fault)
    \/ \E choice \in PlainChoices, fault \in Faults :
           SearchStudent(choice, <<"0", "0">>, fault)
    \/ \E choice \in Choosing(PlainChoices, "4"),
          roll \in FaultRolls, name \in FaultNames, marks \in FaultMarks,
          fault \in Faults :
           EditStudent(choice, roll, name, marks, fault)
    \/ \E choice \in PlainChoices, fault \in Faults : ListStudents(choice, fault)
    \/ \E choice \in PlainChoices, fault \in Faults : TopperAndAverage(choice, fault)
    \/ \E choice \in PlainChoices, fault \in Faults : ExportPdf(choice, fault)
    \/ \E choice \in PlainChoices, fault \in Faults : ExportCsv(choice, fault)
    \/ \E choice \in PlainChoices : Exit(choice)
    \/ \E choice \in PlainChoices : InvalidOption(choice)
    \/ Interrupt
    \/ EndOfInput

SpecFault == InitFault /\ [][NextFault]_vars

----------------------------------------------------------------------------
(* Properties *)

\* the records an operation loaded, and the records in the file now
Before == LoadStudents(last.before)
Now == LoadStudents(file)

\* the numeric rolls among the records q: trimmed, all decimal digits
NumericRolls(q) ==
    {DigitsToInt(Strip(Get(q[i], Roll))) :
        i \in {j \in DOMAIN q : IsDecimalStr(Strip(Get(q[j], Roll)))}}

SetMax(S) == CHOOSE m \in S : \A x \in S : x <= m

\* the marks typed are a number in [0, 100]
ValidMarks(text) ==
    LET m == ParseFloat(text)
    IN  m.k = "fin" /\ ~FloatLess(m, Zero) /\ ~FloatGreater(m, Hundred)

Added == last.op = "add" /\ last.out = "added"

\* the record an add appended
Appended == Now[Len(Now)]

\* C1 as stated: the roll of the record a valid Add appends is 1 + the largest
\* numeric roll in the store before the Add, or "1001" if the store had no record.
C1_RollIsMaxPlusOne ==
    Added =>
        /\ Now = Append(Before, Appended)
        /\ IF Before = <<>> THEN Get(Appended, Roll) = T1001
           ELSE /\ NumericRolls(Before) # {}
                /\ Get(Appended, Roll) = NatToStr(SetMax(NumericRolls(Before)) + 1)

\* C1 as amended: the roll of the record a valid Add appends is "1001" if the store
\* had no record, 1 + the largest numeric roll if some record had a numeric roll,
\* and 1001 + the number of records if there were records but no numeric roll.
C1_RollOfAdd ==
    Added =>
        /\ Now = Append(Before, Appended)
        /\ Get(Appended, Roll) = last.result
        /\ Get(Appended, Roll) =
              IF Before = <<>> THEN T1001
              ELSE IF NumericRolls(Before) # {}
              THEN NatToStr(SetMax(NumericRolls(Before)) + 1)
              ELSE NatToStr(START_ROLL + Len(Before))

\* an Add after records with numeric rolls, the largest not in the last record
C1_Witness ==
    /\ Added
    /\ Len(Before) >= 2
    /\ IsDecimalStr(Strip(Get(Before[Len(Before)], Roll)))
    /\ DigitsToInt(Strip(Get(Before[Len(Before)], Roll))) < SetMax(NumericRolls(Before))

\* C2: from an empty store, no two records of the store ever have the same roll.
C2_RollsUnique ==
    \A i, j \in DOMAIN Now : i # j => Strip(Get(Now[i], Roll)) # Strip(Get(Now[j], Roll))

\* two records in the store after three adds and a delete
C2_Witness == Len(Now) = 2 /\ Len(assigned) = 3 /\ Added

\* C3 as stated: an Add whose name is empty after trimming, or whose marks are no
\* number in [0, 100], appends nothing and leaves the store as it was.
C3_InvalidAddRejected ==
    (/\ last.op = "add"
     /\ \/ Strip(last.inp.name) = <<>>
        \/ ~ValidMarks(last.inp.marks))
    => (file = last.before /\ last.out # "added")

\* the roll typed, trimmed, and whether a record of the loaded store has it
TypedRoll == Strip(last.inp.roll)
RollPresent == \E i \in DOMAIN Before : Strip(Get(Before[i], Roll)) = TypedRoll
Confirmed == Lower(Strip(last.inp.confirm)) = <<"y">>
Deletion == last.op = "delete" /\ pc = "menu"

\* the records of Before whose trimmed roll is not the roll typed, in order
Others == LET Kept(s) == Strip(Get(s, Roll)) # TypedRoll IN SelectSeq(Before, Kept)

\* C4 as stated: a Delete leaves the store unchanged if no record has the roll
\* typed (both trimmed) or the confirmation is not "y" in either case; otherwise
\* it removes every record with that roll and keeps the others in order.
C4_DeleteAsStated ==
    Deletion =>
        IF ~RollPresent \/ ~Confirmed THEN file = last.before
        ELSE Now = Others /\ file = SaveStudents(Others)

\* C4 as amended: the store is also unchanged when the roll typed is empty after
\* trimming, even if a record has an empty roll.
C4_DeleteEffect ==
    Deletion =>
        IF TypedRoll = <<>> \/ ~RollPresent \/ ~Confirmed THEN file = last.before
        ELSE Now = Others /\ file = SaveStudents(Others)

\* a confirmed delete, the roll typed with blanks around it, removes two records
C4_Witness ==
    /\ Deletion /\ last.out = "deleted"
    /\ last.inp.roll # TypedRoll
    /\ Len(Before) - Len(Now) = 2

\* C5 as stated: an Edit given new marks that are no number in [0, 100] writes
\* nothing: the store is unchanged, a new name typed with them included.
C5_InvalidEditAborts ==
    (/\ last.op = "edit"
     /\ TypedRoll # <<>> /\ RollPresent
     /\ Strip(last.inp.marks) # <<>>
     /\ ~ValidMarks(last.inp.marks))
    => (file = last.before /\ last.out = "invalid marks")

\* C6 as stated: the store always holds either the complete record set from before
\* the last operation or the complete record set that operation was to write.
C6_NoPartialWrite ==
    last.op # "none" => Now \in {Before, LoadStudents(last.target)}

\* C7 as stated: a menu operation that fails with a storage error leaves the shell
\* at its menu; the shell ends only on choice 9 or an interrupt.
C7_ShellSurvives ==
    /\ (last.out = "storage error" /\ last.op # "start") => pc = "menu"
    /\ pc \in {"exited", "crashed"} =>
          last.op \in {"exit", "interrupt", "start"} \/ last.out = "interrupted"

\* the marks of every record with the unparseable ones taken as 0
MarksOf(q) == [i \in DOMAIN q |-> MarksOrZero(q[i])]

\* C8 as stated: on a store with records Statistics ends without error; total and
\* maximum take unparseable marks as 0 and the toppers are exactly the records
\* whose marks (unparseable as 0) equal the maximum.
C8_StatisticsTotal ==
    (last.op = "stats" /\ Before # <<>>) =>
        /\ last.out = "stats"
        /\ last.result.count = Len(Before)
        /\ last.result.total = SumTo(MarksOf(Before), Len(Before))
        /\ last.result.max_marks = MaxTo(MarksOf(Before), Len(Before))
        /\ LET Top(s) == FloatEq(MarksOrZero(s), last.result.max_marks)
           IN  last.result.toppers = SelectSeq(Before, Top)

\* C9 as stated: the rolls the adds hand out are strictly increasing.
C9_StrictlyIncreasing ==
    \A i, j \in DOMAIN assigned : i < j => assigned[i] < assigned[j]

\* C9 as amended: the roll an Add hands out is greater than every roll handed out
\* earlier whose record is still in the store; the roll of a deleted record can be
\* handed out again.
C9_AboveLiveRolls ==
    Added =>
        /\ assigned[Len(assigned)] = DigitsToInt(Get(Appended, Roll))
        /\ \A i \in 1..(Len(assigned) - 1) :
              (\E k \in DOMAIN Before : Get(Before[k], Roll) = NatToStr(assigned[i]))
              => assigned[i] < assigned[Len(assigned)]

\* the third add hands out the roll of a deleted record while an earlier one is live
C9_Witness ==
    /\ Added
    /\ Len(assigned) = 3
    /\ assigned[3] = assigned[2]
    /\ \E k \in DOMAIN Before : Get(Before[k], Roll) = NatToStr(assigned[1])

\* the first record of Before with the roll typed
Target ==
    CHOOSE i \in DOMAIN Before :
        /\ Strip(Get(Before[i], Roll)) = TypedRoll
        /\ \A j \in 1..(i - 1) : Strip(Get(Before[j], Roll)) # TypedRoll

Updated == last.op = "edit" /\ last.out = "updated"

\* C10: a successful Edit changes at most the name and marks of the first record
\* with the roll typed; its roll, the number and order of records and every other
\* record stay; with both fields blank the store is rewritten with the same content.
C10_EditFrame ==
    Updated =>
        /\ RollPresent
        /\ Len(Now) = Len(Before)
        /\ \A i \in DOMAIN Before : i # Target => Now[i] = Before[i]
        /\ Get(Now[Target], Roll) = Get(Before[Target], Roll)
        /\ Get(Now[Target], Name) =
              IF Strip(last.inp.name) = <<>> THEN Get(Before[Target], Name)
              ELSE Strip(last.inp.name)
        /\ (Strip(last.inp.marks) = <<>>) => Get(Now[Target], Marks) = Get(Before[Target], Marks)
        /\ (Strip(last.inp.name) = <<>> /\ Strip(last.inp.marks) = <<>>)
              => (Now = Before /\ file = SaveStudents(Before))

\* an edit that changes the first of two records with the same roll
C10_Witness ==
    /\ Updated
    /\ Now # Before
    /\ \E i \in DOMAIN Before : i # Target /\ Strip(Get(Before[i], Roll)) = TypedRoll

====
